---------------------------- MODULE Spec2Model ----------------------------
(* Model of api/b2b-form-submit.js: the multipart decoder                   *)
(* (parseMultipartForm) and the request handler that relays a decoded form  *)
(* to the helpdesk (attachment upload, then ticket creation).               *)
(*                                                                          *)
(* Strings are sequences of UTF-16 code units, buffers sequences of bytes.  *)
EXTENDS Integers, Sequences, FiniteSets, TLC

(***************************************************************************)
(* Bounds of the model.                                                    *)
(***************************************************************************)
\* most parts in a freely composed request body
MaxParts == 2
\* most 'data' events the request stream delivers the body in
MaxChunks == 2

(***************************************************************************)
(* String literals of the source, as code units.                           *)
(***************************************************************************)
\* 'Content-Disposition'
ContentDispositionTok == <<67, 111, 110, 116, 101, 110, 116, 45, 68, 105, 115, 112, 111, 115, 105, 116, 105, 111, 110>>
\* 'name="' and 'filename="', the fixed heads of the two attribute patterns
NameKey == <<110, 97, 109, 101, 61, 34>>
FilenameKey == <<102, 105, 108, 101, 110, 97, 109, 101, 61, 34>>
\* 'Content-Type: '
ContentTypeKey == <<67, 111, 110, 116, 101, 110, 116, 45, 84, 121, 112, 101, 58, 32>>
CRLF == <<13, 10>>
CRLFCRLF == <<13, 10, 13, 10>>
CRLFDashDash == <<13, 10, 45, 45>>
DashDash == <<45, 45>>
\* 'boundary='
BoundaryKey == <<98, 111, 117, 110, 100, 97, 114, 121, 61>>
\* 'application/octet-stream'
OctetStream == <<97, 112, 112, 108, 105, 99, 97, 116, 105, 111, 110, 47, 111, 99, 116, 101, 116, 45, 115, 116, 114, 101, 97, 109>>
\* what a template literal makes of the value undefined: 'undefined'
UndefinedText == <<117, 110, 100, 101, 102, 105, 110, 101, 100>>
\* the property names the handler reads from fields
CompanyNameKey == <<99, 111, 109, 112, 97, 110, 121, 78, 97, 109, 101>>
EmailKey == <<101, 109, 97, 105, 108>>
OrganizationTypeKey == <<111, 114, 103, 97, 110, 105, 122, 97, 116, 105, 111, 110, 84, 121, 112, 101>>
MessageKey == <<109, 101, 115, 115, 97, 103, 101>>

\* the value undefined (no string holds a negative code unit)
Undefined == <<-1>>
\* the quote character of the attribute patterns
Quote == <<34>>

(***************************************************************************)
(* String primitives: String.prototype.includes / split, RegExp match.     *)
(***************************************************************************)
\* t occurs in s at position i (1-based); i + Len(t) - 1 <= Len(s) is assumed
MatchAt(s, t, i) == \A k \in 1..Len(t) : s[i + k - 1] = t[k]

MinOf(S) == CHOOSE i \in S : \A j \in S : i <= j

\* first index >= from at which t occurs in s, 0 when there is none
IndexOf(s, t, from) ==
  LET cands == {i \in from..(Len(s) - Len(t) + 1) : MatchAt(s, t, i)}
  IN IF cands = {} THEN 0 ELSE MinOf(cands)

Includes(s, t) == IndexOf(s, t, 1) # 0

RECURSIVE SplitFrom(_, _, _)
SplitFrom(s, sep, from) ==
  LET i == IndexOf(s, sep, from)
  IN IF i = 0
     THEN <<SubSeq(s, from, Len(s))>>
     ELSE <<SubSeq(s, from, i - 1)>> \o SplitFrom(s, sep, i + Len(sep))

\* s.split(sep) for a non-empty separator
Split(s, sep) == SplitFrom(s, sep, 1)

NoMatch == [matched |-> FALSE, group |-> <<>>]

\* s.match(/<key>([^"]+)"/) where key ends with the opening quote: the leftmost
\* place where key is followed by one or more non-quote characters and a quote
MatchQuoted(s, key) ==
  LET m == Len(key)
      n == Len(s)
      starts == {i \in 1..(n - m) :
                   /\ MatchAt(s, key, i)
                   /\ s[i + m] # Quote[1]
                   /\ \E q \in (i + m + 1)..n : s[q] = Quote[1]}
  IN IF starts = {} THEN NoMatch
     ELSE LET i == MinOf(starts)
              q == MinOf({j \in (i + m + 1)..n : s[j] = Quote[1]})
          IN [matched |-> TRUE, group |-> SubSeq(s, i + m, q - 1)]

\* part.match(/name="([^"]+)"/)
NameMatch(part) == MatchQuoted(part, NameKey)

\* part.match(/filename="([^"]+)"/)
FilenameMatch(part) == MatchQuoted(part, FilenameKey)

\* part.match(/Content-Type: ([^\r\n]+)/): the capture runs to the end of the line
ContentTypeMatch(part) ==
  LET m == Len(ContentTypeKey)
      n == Len(part)
      starts == {i \in 1..(n - m) :
                   MatchAt(part, ContentTypeKey, i) /\ part[i + m] \notin {13, 10}}
  IN IF starts = {} THEN NoMatch
     ELSE LET i == MinOf(starts)
              ends == {j \in (i + m)..n : part[j] \in {13, 10}}
              e == IF ends = {} THEN n + 1 ELSE MinOf(ends)
          IN [matched |-> TRUE, group |-> SubSeq(part, i + m, e - 1)]

(***************************************************************************)
(* Buffer conversions.                                                     *)
(***************************************************************************)
IsCont(b, i, lo, hi) == i <= Len(b) /\ b[i] >= lo /\ b[i] <= hi

\* a code point as UTF-16 code units (a surrogate pair above the BMP)
CodeUnits(cp) ==
  IF cp < 65536 THEN <<cp>>
  ELSE <<55296 + ((cp - 65536) \div 1024), 56320 + ((cp - 65536) % 1024)>>

\* U+FFFD, which replaces every ill-formed sequence
Replacement == <<65533>>

\* UTF-8 decoding of b[i..], left to right, an ill-formed maximal subpart giving
\* U+FFFD; it stops at the end of the buffer
RECURSIVE Utf8From(_, _, _)
Utf8From(b, i, last) ==
  IF i > last THEN <<>>
  ELSE LET b1 == b[i] IN
    IF b1 < 128 THEN <<b1>> \o Utf8From(b, i + 1, last)
    ELSE IF b1 >= 194 /\ b1 <= 223 THEN
      IF IsCont(b, i + 1, 128, 191)
      THEN CodeUnits((b1 - 192) * 64 + (b[i + 1] - 128)) \o Utf8From(b, i + 2, last)
      ELSE Replacement \o Utf8From(b, i + 1, last)
    ELSE IF b1 >= 224 /\ b1 <= 239 THEN
      LET lo == IF b1 = 224 THEN 160 ELSE 128
          hi == IF b1 = 237 THEN 159 ELSE 191
      IN IF ~IsCont(b, i + 1, lo, hi) THEN Replacement \o Utf8From(b, i + 1, last)
         ELSE IF ~IsCont(b, i + 2, 128, 191) THEN Replacement \o Utf8From(b, i + 2, last)
         ELSE CodeUnits((b1 - 224) * 4096 + (b[i + 1] - 128) * 64 + (b[i + 2] - 128))
              \o Utf8From(b, i + 3, last)
    ELSE IF b1 >= 240 /\ b1 <= 244 THEN
      LET lo == IF b1 = 240 THEN 144 ELSE 128
          hi == IF b1 = 244 THEN 143 ELSE 191
      IN IF ~IsCont(b, i + 1, lo, hi) THEN Replacement \o Utf8From(b, i + 1, last)
         ELSE IF ~IsCont(b, i + 2, 128, 191) THEN Replacement \o Utf8From(b, i + 2, last)
         ELSE IF ~IsCont(b, i + 3, 128, 191) THEN Replacement \o Utf8From(b, i + 3, last)
         ELSE CodeUnits((b1 - 240) * 262144 + (b[i + 1] - 128) * 4096
                        + (b[i + 2] - 128) * 64 + (b[i + 3] - 128))
              \o Utf8From(b, i + 4, last)
    ELSE Replacement \o Utf8From(b, i + 1, last)

\* The decoding of b[lo..hi], where b[hi + 1] is an ASCII byte or past the end.
\* A byte below 0x80 is never part of a longer sequence, so the buffer is cut at
\* such a byte near its middle and the halves are decoded on their own: the
\* result is that of the left-to-right pass, the evaluation is shallow.
RECURSIVE Utf8Range(_, _, _)
Utf8Range(b, lo, hi) ==
  LET mid == (lo + hi + 1) \div 2
      above == {j \in mid..hi : b[j] < 128}
      below == {j \in (lo + 1)..(mid - 1) : b[j] < 128}
  IN IF hi - lo < 8 \/ (above = {} /\ below = {}) THEN Utf8From(b, lo, hi)
     ELSE LET m == IF above # {} THEN MinOf(above)
                   ELSE CHOOSE j \in below : \A k \in below : k <= j
          IN Utf8Range(b, lo, m - 1) \o Utf8Range(b, m, hi)

\* buffer.toString()
BufferToString(b) == Utf8Range(b, 1, Len(b))

\* Buffer.from(str, 'binary'): the low byte of every code unit
BufferFromBinary(str) == [i \in 1..Len(str) |-> str[i] % 256]

RECURSIVE ConcatAll(_)
\* Buffer.concat(chunks)
ConcatAll(chunks) ==
  IF chunks = <<>> THEN <<>> ELSE Head(chunks) \o ConcatAll(Tail(chunks))

(***************************************************************************)
(* parseMultipartForm: the body of the 'end' callback.                     *)
(***************************************************************************)
NoFile == [present |-> FALSE, name |-> <<>>, data |-> <<>>, contentType |-> <<>>]

\* '__proto__', the one property name a plain object inherits a setter for
ProtoKey == <<95, 95, 112, 114, 111, 116, 111, 95, 95>>

\* fields[name] = value on a plain object, kept as a function from its own keys.
\* The value is always a string here, and Object.prototype's __proto__ setter
\* ignores a string: that assignment creates no key.
PutField(fields, name, value) ==
  IF name = ProtoKey THEN fields
  ELSE [k \in DOMAIN fields \cup {name} |-> IF k = name THEN value ELSE fields[k]]

EmptyFields == [k \in {} |-> <<>>]

\* req.headers['content-type'].split('boundary=')[1]; the caller has checked the
\* header is there (its absence throws)
BoundaryOf(contentType) ==
  LET pieces == Split(contentType, BoundaryKey)
  IN IF Len(pieces) >= 2 THEN pieces[2] ELSE Undefined

\* `--${boundary}`
Delimiter(boundary) ==
  DashDash \o (IF boundary = Undefined THEN UndefinedText ELSE boundary)

\* the file branch of the forEach callback
FilePart(acc, part) ==
  LET contentTypeMatch == ContentTypeMatch(part)
      pieces == Split(part, CRLFCRLF)
  IN IF Len(pieces) < 2
     THEN [acc EXCEPT !.threw = TRUE]
     ELSE LET fileContent == pieces[2]
              fileBuffer == BufferFromBinary(Split(fileContent, CRLFDashDash)[1])
          IN [acc EXCEPT !.file =
                [present |-> TRUE,
                 name |-> FilenameMatch(part).group,
                 data |-> fileBuffer,
                 contentType |-> IF contentTypeMatch.matched
                                 THEN contentTypeMatch.group ELSE OctetStream]]

\* FieldPart with the test `if (value)` weakened to `if (value !== undefined)`
FieldPartKeepEmpty(acc, part) ==
  LET pieces == Split(part, CRLFCRLF)
      value == IF Len(pieces) < 2 THEN Undefined ELSE Split(pieces[2], CRLF)[1]
  IN IF value # Undefined
     THEN [acc EXCEPT !.fields = PutField(acc.fields, NameMatch(part).group, value)]
     ELSE acc

\* the field branch of the forEach callback
FieldPart(acc, part) ==
  LET pieces == Split(part, CRLFCRLF)
      value == IF Len(pieces) < 2 THEN Undefined ELSE Split(pieces[2], CRLF)[1]
  IN IF value # Undefined /\ value # <<>>
     THEN [acc EXCEPT !.fields = PutField(acc.fields, NameMatch(part).group, value)]
     ELSE acc

\* one call of the forEach callback
ParsePart(acc, part) ==
  IF ~Includes(part, ContentDispositionTok) THEN acc
  ELSE IF FilenameMatch(part).matched THEN FilePart(acc, part)
  ELSE IF NameMatch(part).matched THEN FieldPart(acc, part)
  ELSE acc

RECURSIVE ParseParts(_, _, _)
\* parts.forEach(...), left to right; an exception leaves the loop
ParseParts(parts, i, acc) ==
  IF i > Len(parts) \/ acc.threw THEN acc
  ELSE ParseParts(parts, i + 1, ParsePart(acc, parts[i]))

\* ParseBuffer with the header read as req.headers['content-type']?.split(...):
\* an absent header no longer throws, the boundary is undefined
ParseBufferOptionalHeader(headers, buffer) ==
  LET boundary == IF headers.hasContentType
                  THEN BoundaryOf(headers.contentType) ELSE Undefined
      parts == Split(BufferToString(buffer), Delimiter(boundary))
      acc == ParseParts(parts, 1,
                        [fields |-> EmptyFields, file |-> NoFile, threw |-> FALSE])
  IN IF acc.threw
     THEN [rejected |-> TRUE, fields |-> EmptyFields, file |-> NoFile]
     ELSE [rejected |-> FALSE, fields |-> acc.fields, file |-> acc.file]

\* the try block of the 'end' callback: rejected when it throws, else the form
ParseBuffer(headers, buffer) ==
  IF ~headers.hasContentType
  THEN [rejected |-> TRUE, fields |-> EmptyFields, file |-> NoFile]
  ELSE LET boundary == BoundaryOf(headers.contentType)
           parts == Split(BufferToString(buffer), Delimiter(boundary))
           acc == ParseParts(parts, 1,
                             [fields |-> EmptyFields, file |-> NoFile, threw |-> FALSE])
       IN IF acc.threw
          THEN [rejected |-> TRUE, fields |-> EmptyFields, file |-> NoFile]
          ELSE [rejected |-> FALSE, fields |-> acc.fields, file |-> acc.file]

(***************************************************************************)
(* The requests the handler is run on.                                     *)
(***************************************************************************)
\* the boundary token of the generated bodies: 'XyZ'
Boundary == <<88, 121, 90>>
\* 'multipart/form-data' and 'multipart/form-data; boundary='
MultipartType == <<109, 117, 108, 116, 105, 112, 97, 114, 116, 47, 102, 111, 114, 109, 45, 100, 97, 116, 97>>
MultipartPrefix == <<109, 117, 108, 116, 105, 112, 97, 114, 116, 47, 102, 111, 114, 109, 45, 100, 97, 116, 97, 59, 32, 98, 111, 117, 110, 100, 97, 114, 121, 61>>
\* 'Content-Disposition: form-data; name="'
DispositionHead == <<67, 111, 110, 116, 101, 110, 116, 45, 68, 105, 115, 112, 111, 115, 105, 116, 105, 111, 110, 58, 32, 102, 111, 114, 109, 45, 100, 97, 116, 97, 59, 32, 110, 97, 109, 101, 61, 34>>
\* '"; filename="'
FilenameAttr == <<34, 59, 32, 102, 105, 108, 101, 110, 97, 109, 101, 61, 34>>
\* 'file', the name attribute of a file part
FileFieldName == <<102, 105, 108, 101>>
\* 'X-Note: n', the only header of a part that has no Content-Disposition
NoteHeader == <<88, 45, 78, 111, 116, 101, 58, 32, 110>>

\* the headers of a file part: 'a.pdf' declared as 'application/pdf', and 'b.png'
\* with no Content-Type line at all
FileHeaders ==
  {[filename |-> <<97, 46, 112, 100, 102>>,
    contentType |-> <<97, 112, 112, 108, 105, 99, 97, 116, 105, 111, 110, 47, 112, 100, 102>>],
   [filename |-> <<98, 46, 112, 110, 103>>, contentType |-> Undefined]}
\* payloads: 'hi'; the bytes 0x89 'P'; 'a' CR LF CR LF 'b'
Payloads == {<<104, 105>>, <<137, 80>>, <<97, 13, 10, 13, 10, 98>>}
FieldNames == {CompanyNameKey, EmailKey, OrganizationTypeKey, MessageKey}
\* values: '', 'x', 'yz'
FieldValues == {<<>>, <<120>>, <<121, 122>>}

FileParts ==
  {[kind |-> "file", name |-> FileFieldName, filename |-> h.filename,
    contentType |-> h.contentType, content |-> c] :
     h \in FileHeaders, c \in Payloads}
FieldParts ==
  [kind : {"field"}, name : FieldNames, filename : {Undefined},
   contentType : {Undefined}, content : FieldValues]
\* a text field named '__proto__', with the value 'x'
ProtoParts ==
  [kind : {"field"}, name : {ProtoKey}, filename : {Undefined},
   contentType : {Undefined}, content : {<<120>>}]
\* a part with no Content-Disposition header
JunkParts ==
  [kind : {"junk"}, name : {Undefined}, filename : {Undefined},
   contentType : {Undefined}, content : {<<122>>}]
\* a file part whose headers are not followed by a blank line
BrokenParts ==
  [kind : {"broken"}, name : {FileFieldName}, filename : {<<97, 46, 112, 100, 102>>},
   contentType : {Undefined}, content : {<<>>}]
Parts == FileParts \cup FieldParts \cup ProtoParts \cup JunkParts \cup BrokenParts

\* the bytes of one part, from its delimiter line to the CR LF that ends its content
EncodePart(p) ==
  DashDash \o Boundary \o CRLF \o
  (CASE p.kind = "file" ->
          DispositionHead \o p.name \o FilenameAttr \o p.filename \o Quote \o CRLF \o
          (IF p.contentType = Undefined THEN <<>>
           ELSE ContentTypeKey \o p.contentType \o CRLF) \o
          CRLF \o p.content \o CRLF
     [] p.kind = "field" ->
          DispositionHead \o p.name \o Quote \o CRLF \o CRLF \o p.content \o CRLF
     [] p.kind = "junk" ->
          NoteHeader \o CRLF \o CRLF \o p.content \o CRLF
     [] OTHER ->
          DispositionHead \o p.name \o FilenameAttr \o p.filename \o Quote \o CRLF)

RECURSIVE EncodeParts(_)
EncodeParts(ps) ==
  IF ps = <<>> THEN <<>> ELSE EncodePart(Head(ps)) \o EncodeParts(Tail(ps))

\* a multipart/form-data body: the parts, then the closing delimiter
EncodeBody(ps) == EncodeParts(ps) \o DashDash \o Boundary \o DashDash \o CRLF

\* every sequence of at most n parts
FormsUpTo(n) == UNION {[1..k -> Parts] : k \in 0..n}

\* one file part and the three text fields, each with a non-empty value, the file
\* part first or last
RoundTripForms ==
  {IF fileFirst THEN <<f, c, e, o>> ELSE <<c, e, o, f>> :
     <<f, c, e, o, fileFirst>> \in
       FileParts
       \X {p \in FieldParts : p.name = CompanyNameKey /\ p.content # <<>>}
       \X {p \in FieldParts : p.name = EmailKey /\ p.content # <<>>}
       \X {p \in FieldParts : p.name = OrganizationTypeKey /\ p.content # <<>>}
       \X BOOLEAN}

NoContentType == [hasContentType |-> FALSE, contentType |-> <<>>]
WithBoundary == [hasContentType |-> TRUE, contentType |-> MultipartPrefix \o Boundary]
WithoutBoundary == [hasContentType |-> TRUE, contentType |-> MultipartType]

Methods == {"POST", "OPTIONS", "GET"}

\* [method, headers, form]: a well-formed POST carries any form; the other
\* requests carry one of at most one part
Requests ==
  ({"POST"} \X {WithBoundary} \X (FormsUpTo(MaxParts) \cup RoundTripForms))
  \cup ({"POST"} \X {NoContentType, WithoutBoundary} \X FormsUpTo(1))
  \cup ((Methods \ {"POST"}) \X {WithBoundary} \X FormsUpTo(1))

\* what the helpdesk can answer
Urls == {"https://cdn.example/u1", "https://cdn.example/u2"}
TicketIds == {42, 43}
\* a call fails with no response at all, with a non-2xx response that carries
\* errors, or with a non-2xx response that carries none
FailureKinds == {"no response", "errors", "no errors"}

(***************************************************************************)
(* State.                                                                  *)
(***************************************************************************)
VARIABLES
  req,        \* the request: method, headers, body
  form,       \* the parts the body was encoded from
  pending,    \* body bytes the stream has not delivered yet
  chunks,     \* the chunks the 'data' listener has pushed
  pc,         \* where the handler is
  parsed,     \* how the promise of parseMultipartForm settled
  res,        \* the response: status (0 = none sent), headers, body
  calls,      \* the upstream requests issued, in order
  uploadResponse,  \* the upload call: pending, resolved (with its url) or rejected
  ticketResponse   \* the ticket call: pending, resolved (with its id) or rejected

vars ==
  <<req, form, pending, chunks, pc, parsed, res, calls, uploadResponse,
    ticketResponse>>

NoBody ==
  [kind |-> "none", error |-> "", details |-> "", success |-> FALSE,
   ticketId |-> 0, message |-> "", attachmentUrl |-> ""]
\* res.status(s).end()
EmptyBody == [NoBody EXCEPT !.kind = "empty"]
\* res.status(s).json({ error, details })
ErrorBody(e, d) == [NoBody EXCEPT !.kind = "json", !.error = e, !.details = d]
\* SuccessBody without the attachment's url
SuccessBodyNoUrl(id, url) ==
  [NoBody EXCEPT !.kind = "json", !.success = TRUE, !.ticketId = id,
                 !.message = "Form submitted successfully"]

\* res.status(200).json({ success: true, ticketId, message, attachmentUrl })
SuccessBody(id, url) ==
  [NoBody EXCEPT !.kind = "json", !.success = TRUE, !.ticketId = id,
                 !.message = "Form submitted successfully", !.attachmentUrl = url]

\* the three res.setHeader calls
CorsHeaders ==
  [h \in {"Access-Control-Allow-Origin", "Access-Control-Allow-Methods",
          "Access-Control-Allow-Headers"} |->
     CASE h = "Access-Control-Allow-Origin" -> "*"
       [] h = "Access-Control-Allow-Methods" -> "POST, OPTIONS"
       [] OTHER -> "Content-Type"]
NoHeaders == [h \in {} |-> ""]

NotParsed ==
  [settled |-> FALSE, rejected |-> FALSE, reason |-> "", fields |-> EmptyFields,
   file |-> NoFile]
NoUploadResponse == [state |-> "pending", url |-> ""]
NoTicketResponse == [state |-> "pending", id |-> 0]

Init ==
  /\ \E r \in Requests :
       /\ req = [method |-> r[1], headers |-> r[2], body |-> EncodeBody(r[3])]
       /\ form = r[3]
  /\ pending = req.body
  /\ chunks = <<>>
  /\ pc = "start"
  /\ parsed = NotParsed
  /\ res = [status |-> 0, headers |-> NoHeaders, body |-> NoBody]
  /\ calls = <<>>
  /\ uploadResponse = NoUploadResponse
  /\ ticketResponse = NoTicketResponse

(***************************************************************************)
(* The handler, one action per step between two suspension points.         *)
(***************************************************************************)
\* fields.<key>: undefined when the key is absent
GetField(fields, key) == IF key \in DOMAIN fields THEN fields[key] ELSE Undefined

\* res.status(s).json(b) / res.status(s).end(): the headers set so far go with it
Respond(s, b) == res' = [res EXCEPT !.status = s, !.body = b]

\* error.response?.data?.errors || error.message
ErrorDetails(kind) == IF kind = "errors" THEN "response errors" ELSE "error message"

\* the catch block of the handler
CatchError(kind) == Respond(500, ErrorBody("Form submission failed", ErrorDetails(kind)))

UploadEndpoint == "/api/upload?type=attachment"
TicketEndpoint == "/api/tickets"

\* 'No message provided' and 'B2B Form Submission - '
NoMessageText == <<78, 111, 32, 109, 101, 115, 115, 97, 103, 101, 32, 112, 114, 111, 118, 105, 100, 101, 100>>
SubjectHead == <<66, 50, 66, 32, 70, 111, 114, 109, 32, 83, 117, 98, 109, 105, 115, 115, 105, 111, 110, 32, 45, 32>>

\* `${value}` in a template literal
TemplateText(value) == IF value = Undefined THEN UndefinedText ELSE value

\* the multipart request of the upload call
UploadRequest(file) ==
  [endpoint |-> UploadEndpoint, filename |-> file.name,
   contentType |-> file.contentType, data |-> file.data]

\* the JSON request of the ticket call
TicketRequest(fields, file, upload) ==
  [endpoint |-> TicketEndpoint,
   customerEmail |-> GetField(fields, EmailKey),
   customerName |-> GetField(fields, CompanyNameKey),
   subject |-> SubjectHead \o TemplateText(GetField(fields, CompanyNameKey)),
   tag |-> GetField(fields, OrganizationTypeKey),
   messageText |-> IF GetField(fields, MessageKey) = Undefined
                   THEN NoMessageText ELSE GetField(fields, MessageKey),
   attachedDocument |-> file.name,
   attachmentUrl |-> upload.url]

\* HandlerStart without the method check
HandlerStartAnyMethod ==
  /\ pc = "start"
  /\ res' = [res EXCEPT !.headers = CorsHeaders]
  /\ pc' = "reading"
  /\ UNCHANGED <<req, form, pending, chunks, parsed, calls, uploadResponse, ticketResponse>>

\* entry of the handler, up to the call of parseMultipartForm
HandlerStart ==
  /\ pc = "start"
  /\ IF req.method # "POST"
     THEN /\ Respond(405, ErrorBody("Method not allowed", ""))
          /\ pc' = "done"
     ELSE IF req.method = "OPTIONS"
     THEN /\ res' = [res EXCEPT !.headers = CorsHeaders, !.status = 200,
                                !.body = EmptyBody]
          /\ pc' = "done"
     ELSE /\ res' = [res EXCEPT !.headers = CorsHeaders]
          /\ pc' = "reading"
  /\ UNCHANGED <<req, form, pending, chunks, parsed, calls, uploadResponse, ticketResponse>>

\* the sizes the next chunk may have: all that is left, or half of it while the
\* stream may still deliver another chunk after this one
ChunkSizes ==
  {Len(pending)} \cup
  (IF Len(chunks) + 1 < MaxChunks /\ Len(pending) >= 2
   THEN {Len(pending) \div 2} ELSE {})

\* req.on('data', chunk => chunks.push(chunk))
OnData ==
  /\ pc = "reading"
  /\ pending # <<>>
  /\ \E k \in ChunkSizes :
       /\ chunks' = Append(chunks, SubSeq(pending, 1, k))
       /\ pending' = SubSeq(pending, k + 1, Len(pending))
  /\ UNCHANGED <<req, form, pc, parsed, res, calls, uploadResponse, ticketResponse>>

\* req.on('end', ...): decode the whole body and settle the promise
OnEnd ==
  /\ pc = "reading"
  /\ pending = <<>>
  /\ LET r == ParseBuffer(req.headers, ConcatAll(chunks))
     IN parsed' = [settled |-> TRUE, rejected |-> r.rejected,
                   reason |-> IF r.rejected THEN "TypeError" ELSE "",
                   fields |-> r.fields, file |-> r.file]
  /\ pc' = "settled"
  /\ UNCHANGED <<req, form, pending, chunks, res, calls, uploadResponse, ticketResponse>>

\* req.on('error', reject): the stream fails before its end
OnError ==
  /\ pc = "reading"
  /\ parsed' = [NotParsed EXCEPT !.settled = TRUE, !.rejected = TRUE,
                                 !.reason = "stream error"]
  /\ pc' = "settled"
  /\ UNCHANGED <<req, form, pending, chunks, res, calls, uploadResponse, ticketResponse>>

\* AfterParse without the `if (!file)` check
AfterParseNoFileCheck ==
  /\ pc = "settled"
  /\ IF parsed.rejected
     THEN /\ CatchError("no response")
          /\ pc' = "done"
          /\ calls' = calls
     ELSE /\ calls' = Append(calls, UploadRequest(parsed.file))
          /\ pc' = "uploading"
          /\ res' = res
  /\ UNCHANGED <<req, form, pending, chunks, parsed, uploadResponse, ticketResponse>>

\* the handler resumes after await parseMultipartForm(req), up to the upload call
AfterParse ==
  /\ pc = "settled"
  /\ IF parsed.rejected
     THEN /\ CatchError("no response")
          /\ pc' = "done"
          /\ calls' = calls
     ELSE IF ~parsed.file.present
     THEN /\ Respond(400, ErrorBody("No file uploaded", ""))
          /\ pc' = "done"
          /\ calls' = calls
     ELSE /\ calls' = Append(calls, UploadRequest(parsed.file))
          /\ pc' = "uploading"
          /\ res' = res
  /\ UNCHANGED <<req, form, pending, chunks, parsed, uploadResponse, ticketResponse>>

\* the upload call resolves; the handler goes on to issue the ticket call
UploadSucceeds ==
  /\ pc = "uploading"
  /\ \E u \in Urls :
       /\ uploadResponse' = [state |-> "resolved", url |-> u]
       /\ calls' = Append(calls,
                          TicketRequest(parsed.fields, parsed.file, uploadResponse'))
  /\ pc' = "ticketing"
  /\ UNCHANGED <<req, form, pending, chunks, parsed, res, ticketResponse>>

\* UploadFails with the failure swallowed: the handler goes on to the ticket call
UploadFailsSwallowed ==
  /\ pc = "uploading"
  /\ uploadResponse' = [uploadResponse EXCEPT !.state = "rejected"]
  /\ calls' = Append(calls, TicketRequest(parsed.fields, parsed.file, uploadResponse'))
  /\ pc' = "ticketing"
  /\ UNCHANGED <<req, form, pending, chunks, parsed, res, ticketResponse>>

\* the upload call rejects (no response, or a non-2xx one)
UploadFails ==
  /\ pc = "uploading"
  /\ \E kind \in FailureKinds : CatchError(kind)
  /\ uploadResponse' = [uploadResponse EXCEPT !.state = "rejected"]
  /\ pc' = "done"
  /\ UNCHANGED <<req, form, pending, chunks, parsed, calls, ticketResponse>>

\* the ticket call resolves; the handler answers 200
TicketSucceeds ==
  /\ pc = "ticketing"
  /\ \E id \in TicketIds :
       /\ ticketResponse' = [state |-> "resolved", id |-> id]
       /\ Respond(200, SuccessBody(ticketResponse'.id, uploadResponse.url))
  /\ pc' = "done"
  /\ UNCHANGED <<req, form, pending, chunks, parsed, calls, uploadResponse>>

\* TicketFails with one retry of the ticket call before giving up
TicketFailsRetry ==
  /\ pc = "ticketing"
  /\ IF Len(calls) < 3
     THEN /\ calls' = Append(calls, calls[Len(calls)])
          /\ UNCHANGED <<res, pc, ticketResponse>>
     ELSE /\ \E kind \in FailureKinds : CatchError(kind)
          /\ ticketResponse' = [ticketResponse EXCEPT !.state = "rejected"]
          /\ pc' = "done"
          /\ calls' = calls
  /\ UNCHANGED <<req, form, pending, chunks, parsed, uploadResponse>>

\* the ticket call rejects
TicketFails ==
  /\ pc = "ticketing"
  /\ \E kind \in FailureKinds : CatchError(kind)
  /\ ticketResponse' = [ticketResponse EXCEPT !.state = "rejected"]
  /\ pc' = "done"
  /\ UNCHANGED <<req, form, pending, chunks, parsed, calls, uploadResponse>>

Next ==
  \/ HandlerStart
  \/ OnData
  \/ OnEnd
  \/ OnError
  \/ AfterParse
  \/ UploadSucceeds
  \/ UploadFails
  \/ TicketSucceeds
  \/ TicketFails

Spec == Init /\ [][Next]_vars

(***************************************************************************)
(* Properties.                                                             *)
(***************************************************************************)
\* the upstream calls issued so far to one endpoint
CallsTo(endpoint) == {i \in DOMAIN calls : calls[i].endpoint = endpoint}

\* nothing of the body has been read and the decoder has not run
NothingParsed == chunks = <<>> /\ ~parsed.settled

FailedResponse ==
  /\ res.status = 500
  /\ res.body.kind = "json"
  /\ res.body.error = "Form submission failed"

\* the decoder ran to its end on the whole body (the stream did not fail)
Decoded == parsed.settled /\ parsed.reason # "stream error"

FileIndices == {i \in DOMAIN form : form[i].kind = "file"}
FieldIndices == {i \in DOMAIN form : form[i].kind = "field"}

\* the content type a file part declares, the generic binary type when none
DeclaredType(p) == IF p.contentType = Undefined THEN OctetStream ELSE p.contentType

\* the file a file part of the form was encoded from
FileOfPart(p) ==
  [present |-> TRUE, name |-> p.filename, data |-> p.content,
   contentType |-> DeclaredType(p)]

\* C1: an OPTIONS request is answered 200 with an empty body and the three CORS
\* headers, before any parsing and without any upstream call.
C1_OptionsPreflight ==
  (req.method = "OPTIONS" /\ pc # "start") =>
     /\ pc = "done"
     /\ res.status = 200
     /\ res.body = EmptyBody
     /\ res.headers = CorsHeaders
     /\ NothingParsed
     /\ calls = <<>>

\* C2: a POST whose body decodes to a form with no file is answered 400
\* { error: "No file uploaded" } and no upstream call is ever made for it.
C2_NoFileIs400 ==
  (req.method = "POST" /\ parsed.settled /\ ~parsed.rejected /\ ~parsed.file.present) =>
     /\ calls = <<>>
     /\ pc \in {"settled", "done"}
     /\ pc = "done" => (res.status = 400 /\ res.body = ErrorBody("No file uploaded", ""))

C2_Witness ==
  /\ req.method = "POST"
  /\ parsed.settled /\ ~parsed.rejected /\ ~parsed.file.present
  /\ pc = "done"
  /\ res.status = 400

\* C3: when the upload call fails the handler answers 500 and never attempts the
\* ticket call; every ticket call comes right after an upload call of the same
\* request that has succeeded.
C3_UploadBeforeTicket ==
  /\ uploadResponse.state = "rejected" =>
       (pc = "done" /\ FailedResponse /\ CallsTo(TicketEndpoint) = {})
  /\ \A i \in CallsTo(TicketEndpoint) :
       /\ i > 1
       /\ calls[i - 1].endpoint = UploadEndpoint
       /\ uploadResponse.state = "resolved"

C3_Witness ==
  /\ req.method = "POST"
  /\ parsed.file.present
  /\ uploadResponse.state = "rejected"
  /\ Len(calls) = 1
  /\ res.status = 500

\* C4: when the upload resolves with url U and the ticket call with id I, the
\* handler answers 200 with success = true, ticketId = I and attachmentUrl = U;
\* a 200 is sent only when both calls have succeeded.
C4_SuccessResponse ==
  /\ (uploadResponse.state = "resolved" /\ ticketResponse.state = "resolved") =>
       /\ pc = "done"
       /\ res.status = 200
       /\ res.body.kind = "json"
       /\ res.body.success
       /\ res.body.ticketId = ticketResponse.id
       /\ res.body.attachmentUrl = uploadResponse.url
  /\ res.status = 200 =>
       (uploadResponse.state = "resolved" /\ ticketResponse.state = "resolved")

C4_Witness ==
  /\ uploadResponse = [state |-> "resolved", url |-> "https://cdn.example/u2"]
  /\ ticketResponse = [state |-> "resolved", id |-> 42]
  /\ res.status = 200
  /\ res.body.ticketId = 42

\* C5: a request whose method is neither POST nor OPTIONS is answered 405; its
\* body is never read or decoded and no upstream call is made.
C5_OtherMethods405 ==
  (req.method \notin {"POST", "OPTIONS"} /\ pc # "start") =>
     /\ pc = "done"
     /\ res.status = 405
     /\ NothingParsed
     /\ calls = <<>>

C5_Witness == req.method = "GET" /\ pc = "done" /\ res.status = 405

\* C6 as stated: a POST whose Content-Type header is absent, or has no
\* 'boundary=' in it, makes the decoder fail, and the handler answers 500
\* "Form submission failed".
C6_BadContentTypeRejects ==
  (/\ req.method = "POST"
   /\ (~req.headers.hasContentType \/ ~Includes(req.headers.contentType, BoundaryKey))
   /\ parsed.settled) =>
     /\ parsed.rejected
     /\ pc = "done" => FailedResponse

\* C6 as amended: a POST with no Content-Type header at all makes the decoder
\* fail, and the handler answers 500 "Form submission failed" without any
\* upstream call.
C6_AbsentContentTypeRejects ==
  (req.method = "POST" /\ ~req.headers.hasContentType /\ parsed.settled) =>
     /\ parsed.rejected
     /\ pc \in {"settled", "done"}
     /\ calls = <<>>
     /\ pc = "done" => FailedResponse

C6_Witness ==
  /\ req.method = "POST"
  /\ ~req.headers.hasContentType
  /\ parsed.reason = "TypeError"
  /\ pc = "done"
  /\ res.status = 500

\* a well-formed body of one file part with a declared content type and three
\* text fields of different names, each with a non-empty value
IsRoundTripForm ==
  /\ Len(form) = 4
  /\ Cardinality(FileIndices) = 1
  /\ Cardinality(FieldIndices) = 3
  /\ \A i \in FileIndices : form[i].contentType # Undefined
  /\ \A i \in FieldIndices : form[i].content # <<>>
  /\ \A i, j \in FieldIndices : form[i].name = form[j].name => i = j

\* C7: decoding a well-formed body of one file part and three non-empty text
\* fields gives exactly the three fields with their values and the file with
\* its name, its content type and its payload byte for byte.
C7_RoundTrip ==
  (req.method = "POST" /\ req.headers = WithBoundary /\ IsRoundTripForm /\ Decoded) =>
     /\ ~parsed.rejected
     /\ DOMAIN parsed.fields = {form[i].name : i \in FieldIndices}
     /\ \A i \in FieldIndices : parsed.fields[form[i].name] = form[i].content
     /\ \A i \in FileIndices : parsed.file = FileOfPart(form[i])

\* C8: of a body with two or more file parts the decoded form holds the name,
\* the content type and the data of the last file part in body order.
C8_LastFileWins ==
  (/\ req.method = "POST" /\ req.headers = WithBoundary
   /\ Cardinality(FileIndices) >= 2
   /\ Decoded /\ ~parsed.rejected) =>
     parsed.file = FileOfPart(form[CHOOSE i \in FileIndices : \A j \in FileIndices : j <= i])

\* C9: a text field whose value is empty is not put into fields: every key of
\* the decoded fields maps to a non-empty string, and a name submitted only
\* with an empty value is not a key.
C9_EmptyValuesDropped ==
  (req.method = "POST" /\ Decoded /\ ~parsed.rejected) =>
     /\ \A k \in DOMAIN parsed.fields : parsed.fields[k] # <<>>
     /\ \A i \in FieldIndices :
          (\A j \in FieldIndices : form[j].name = form[i].name => form[j].content = <<>>)
             => form[i].name \notin DOMAIN parsed.fields

C9_Witness ==
  /\ req.method = "POST" /\ req.headers = WithBoundary
  /\ Decoded /\ ~parsed.rejected
  /\ Len(form) = 2
  /\ form[1].kind = "field" /\ form[1].content = <<>>
  /\ form[2].kind = "field" /\ form[2].content # <<>> /\ form[2].name # form[1].name
  /\ DOMAIN parsed.fields = {form[2].name}

\* C10: when the upload succeeds and the ticket call then fails, the handler
\* answers 500 "Form submission failed" and calls nothing more: one upload
\* call and one ticket call in all, no retry and no cleanup call.
C10_TicketFailureNoRetry ==
  /\ (uploadResponse.state = "resolved" /\ ticketResponse.state = "rejected") =>
       /\ pc = "done"
       /\ FailedResponse
       /\ Len(calls) = 2
       /\ calls[1].endpoint = UploadEndpoint
       /\ calls[2].endpoint = TicketEndpoint
  /\ Cardinality(CallsTo(UploadEndpoint)) <= 1
  /\ Cardinality(CallsTo(TicketEndpoint)) <= 1

C10_Witness ==
  /\ uploadResponse.state = "resolved"
  /\ ticketResponse.state = "rejected"
  /\ pc = "done"
  /\ res.status = 500

=============================================================================
